---- MODULE Spec2Model ----
(***************************************************************************)
(* Model of the event-driven PuppeteerPool: PuppeteerPool (acquire, close, *)
(* closeAll, processQueues), PoolItem, AcquireQueue, CloseQueue and        *)
(* AsyncSerial.  One action is one synchronous segment of JavaScript: an   *)
(* API call, a timer callback, or the part of the runner between two       *)
(* awaits.  Browser launches, page creations and closes are awaited calls  *)
(* whose outcome (success or failure) is chosen by the environment.        *)
(***************************************************************************)
EXTENDS Integers, Sequences, FiniteSets, Bags, TLC

\* ---- bounds ----
MaxRequests == 3       \* acquire() calls in a run
MaxCloseAll == 1       \* closeAll() calls in a run
MaxFailures == 1       \* failing launch / newPage / close calls in a run
MaxConcurrency == 2    \* largest options.concurrency tried
MaxElapsed == 1        \* longest wait of a request, in clock ticks
MaxItemPages == 3      \* pages and longest pages array of a PoolItem called directly
MaxItemCounter == 4    \* addPage calls on a PoolItem called directly

\* ---- program constants ----
CONCURRENCY_DEFAULT == 1
ACQUIRE_TIMEOUT_DEFAULT == 30000
TestAcquireTimeout == 10000

ForeignPage == 0
NotOwnedError == "Provided page does not belong to the pool"
PageNotFoundError == "Page not found"
NoError == ""
ConcurrencyError == "Concurrency option must be provided (>= 1)"

VARIABLES
    options,        \* constructor argument; an absent key is an undefined option
    throwing,       \* the events whose listener throws when it is called
    errorListener,  \* whether an "error" listener is registered on the pool
    pool,           \* PuppeteerPool.pool: ids of the live PoolItems, in order
    poolItems,      \* every PoolItem ever constructed, by id
    queue,          \* AcquireQueue.queue: ids of the pending requests
    timers,         \* requests whose deadline timer is armed
    count,          \* AcquireQueue.count: latency samples recorded
    requests,       \* the promise of every acquire() call, by request id
    closePages,     \* CloseQueue.pages
    closeBrowsers,  \* CloseQueue.browsers
    closingPages,   \* pages whose close() is in flight
    flushBrowsers,  \* local `browsers` of the flush in progress
    closingBrowsers,\* browsers whose close() is in flight
    counter,        \* AsyncSerial.counter
    pc,             \* where the runner loop is
    curItem,        \* processQueues: the PoolItem found by first-fit (0: none)
    curBrowser,     \* processQueues: the browser just launched (0: none)
    nextPage,       \* id of the next page newPage() returns
    nextBrowser,    \* id of the next browser launch() returns
    closeAllCalls,  \* closeAll() calls so far
    closeAllPending,  \* how many requests at the head of the acquire queue were pending at the last closeAll() call
    failures,       \* failed environment calls so far
    thrown,         \* error thrown by the latest close() call ("": the
                    \* latest call, the constructor included, returned)
    loops,          \* AsyncSerial loops scheduled or running
    errorEmits,     \* emit("error", ...) calls so far
    pageBrowser,    \* the browser that created each page, by page id
    acquireLog,     \* item.resolve calls and after_acquire emits, in order
    timeMax,        \* AcquireQueue.timeMax
    timeTotal,      \* AcquireQueue.timeTotal
    passSignals,    \* run() calls since the pass in progress started (0: none is)
    afterClose,     \* emit("after_close", page) calls so far, as a bag of pages
    pageCloses,     \* page.close() calls made by CloseQueue so far, as a bag
    browserCloses   \* browser.close() calls made by CloseQueue so far, as a bag

vars == <<options, throwing, errorListener, pool, poolItems, queue, timers, count,
          requests, closePages, closeBrowsers, closingPages, flushBrowsers,
          closingBrowsers, counter, pc, curItem, curBrowser, nextPage,
          nextBrowser, closeAllCalls, closeAllPending, failures, thrown, loops, errorEmits,
          pageBrowser, acquireLog, timeMax, timeTotal, passSignals,
          afterClose, pageCloses, browserCloses>>

\* ---- helpers ----
Max(a, b) == IF a >= b THEN a ELSE b

RECURSIVE SeqSum(_)
SeqSum(s) == IF s = <<>> THEN 0 ELSE Head(s) + SeqSum(Tail(s))

Range(s) == {s[i] : i \in DOMAIN s}

RemoveAt(s, i) == SubSeq(s, 1, i - 1) \o SubSeq(s, i + 1, Len(s))

\* the elements of a sequence, each as often as it occurs
SeqToBag(s) == [x \in Range(s) |-> Cardinality({i \in DOMAIN s : s[i] = x})]

\* Array.prototype.findIndex on the results of the predicate, element by
\* element; 1-based, 0 stands for -1
FindIndex(hits) ==
    IF \E i \in DOMAIN hits : hits[i]
    THEN CHOOSE i \in DOMAIN hits : hits[i] /\ \A j \in 1..(i - 1) : ~hits[j]
    ELSE 0

\* the options tried: every concurrency from 1 up with the acquireTimeout of
\* the tests, and a concurrency below 1 with no acquireTimeout given
OptionsSet ==
    {[concurrency |-> c, acquireTimeout |-> TestAcquireTimeout] : c \in 1..MaxConcurrency}
        \cup {[concurrency |-> 0]}

\* ---- PuppeteerPool getters ----
concurrency_raw ==
    IF "concurrency" \in DOMAIN options THEN options.concurrency ELSE 0

concurrency ==
    Max(CONCURRENCY_DEFAULT,
        IF "concurrency" \in DOMAIN options THEN options.concurrency ELSE 0)

acquireTimeout ==
    Max(0, IF "acquireTimeout" \in DOMAIN options
           THEN options.acquireTimeout ELSE ACQUIRE_TIMEOUT_DEFAULT)

\* ---- PoolItem ----
active(item) == Len(item.pages)

isExhausted_gt(item) == item.counter > concurrency

isExhausted(item) == item.counter >= concurrency

findPageIndex_any(item, page) == IF item.pages = <<>> THEN 0 ELSE 1

findPageIndex(item, page) == FindIndex([i \in DOMAIN item.pages |-> item.pages[i] = page])

addPage(item, page) ==
    [item EXCEPT !.pages = Append(@, page), !.counter = @ + 1]

removePage_keep(item, page) == item

removePage(item, page) ==
    [item EXCEPT !.pages = RemoveAt(@, findPageIndex(item, page))]

removeAllPages(item) == [item EXCEPT !.pages = <<>>]

PoolItem_stats_swapped(item) == [counter |-> active(item), active |-> item.counter]

\* PoolItem.stats, without the lifetime read from the clock
PoolItem_stats(item) == [counter |-> item.counter, active |-> active(item)]

NewPoolItem(browser) == [browser |-> browser, counter |-> 0, pages |-> <<>>]

totalActiveOf_zero(pl, its) == 0

totalActiveOf(pl, its) == SeqSum([i \in DOMAIN pl |-> active(its[pl[i]])])

totalActive == totalActiveOf(pool, poolItems)

\* the pool as constructed, whatever its listeners do
InitPool ==
    /\ options \in OptionsSet
    /\ errorListener \in BOOLEAN
    /\ pool = <<>>
    /\ poolItems = <<>>
    /\ queue = <<>>
    /\ timers = {}
    /\ count = 0
    /\ requests = <<>>
    /\ closePages = <<>>
    /\ closeBrowsers = <<>>
    /\ closingPages = {}
    /\ flushBrowsers = <<>>
    /\ closingBrowsers = {}
    /\ counter = 0
    /\ pc = "idle"
    /\ curItem = 0
    /\ curBrowser = 0
    /\ nextPage = 1
    /\ nextBrowser = 1
    /\ closeAllCalls = 0
    /\ closeAllPending = 0
    /\ failures = 0
    /\ thrown = NoError
    /\ loops = 0
    /\ errorEmits = 0
    /\ pageBrowser = <<>>
    /\ acquireLog = <<>>
    /\ timeMax = 0
    /\ timeTotal = 0
    /\ passSignals = 0
    /\ afterClose = EmptyBag
    /\ pageCloses = EmptyBag
    /\ browserCloses = EmptyBag

\* the events a pool emits
Events == {"after_acquire", "after_close", "error"}

\* a pool whose listeners return normally
Init == InitPool /\ throwing = {}

\* a pool with an "error" listener, one of whose listeners throws
InitObservers ==
    /\ InitPool
    /\ errorListener
    /\ throwing \in {{event} : event \in Events}

\* where the runner is while a call of processQueues has not yet returned
\* to the loop
PassRunning ==
    {"flushPages", "flushBrowsers", "launch", "firstPage", "closePartial",
     "newPage", "passDone"}

\* ---- AsyncSerial.run: count the signal, schedule the loop on the first ----
run_dropSignal ==
    /\ counter' = IF counter > 0 THEN counter ELSE counter + 1
    /\ pc' = IF counter > 0 THEN pc ELSE "scheduled"
    /\ loops' = IF counter > 0 THEN loops ELSE loops + 1
    /\ passSignals' = IF pc \in PassRunning THEN passSignals + 1 ELSE passSignals

run_noGuard ==
    /\ counter' = counter + 1
    /\ pc' = "scheduled"
    /\ loops' = loops + 1
    /\ passSignals' = IF pc \in PassRunning THEN passSignals + 1 ELSE passSignals

run ==
    /\ counter' = counter + 1
    /\ pc' = IF counter + 1 > 1 THEN pc ELSE "scheduled"
    /\ loops' = IF counter + 1 > 1 THEN loops ELSE loops + 1
    /\ passSignals' = IF pc \in PassRunning THEN passSignals + 1 ELSE passSignals

\* ---- AcquireQueue ----
isEmpty(q) == Len(q) = 0

TimeoutMessage(ms) == <<"Acquire timeout: ", ms, " ms">>

\* the promise of one acquire(pageOpts) call; pageOpts is an object of the
\* caller, known by its identity
NewRequest(pageOpts) ==
    [resolveCalls |-> 0, rejectCalls |-> 0, page |-> 0, error |-> <<>>,
     pageOpts |-> pageOpts]

\* AcquireQueue.addStats, for a request that waited time ticks
addStats(time) ==
    /\ count' = count + 1
    /\ timeMax' = Max(timeMax, time)
    /\ timeTotal' = timeTotal + time

\* a JavaScript number that may be NaN or an infinity
Num(n) == [kind |-> "number", value |-> n]

NaN == [kind |-> "NaN", value |-> 0]

Infinity == [kind |-> "Infinity", value |-> 0]

\* Math.round(a / b) for a >= 0 and b >= 0
RoundDiv(a, b) ==
    IF b = 0 THEN (IF a = 0 THEN NaN ELSE Infinity)
    ELSE Num((2 * a + b) \div (2 * b))

\* AcquireQueue.stats
stats == [max |-> Num(timeMax), mean |-> RoundDiv(timeTotal, count)]

LogEntry(kind, item, page, pageOpts) ==
    [kind |-> kind, item |-> item, page |-> page, pageOpts |-> pageOpts]

\* of the requests that were pending at the last closeAll() call, those that
\* this step leaves in the acquire queue
StillPending ==
    closeAllPending' =
        Cardinality({k \in 1..closeAllPending : queue[k] \in Range(queue')})

\* AcquireQueue.add: arm the deadline timer and append the request
add(pageOpts) ==
    LET item == Len(requests) + 1 IN
    /\ requests' = Append(requests, NewRequest(pageOpts))
    /\ timers' = timers \cup {item}
    /\ queue' = Append(queue, item)

timeoutCallback_noRemove(item) ==
    /\ queue' = queue
    /\ requests' = [requests EXCEPT ![item].rejectCalls = @ + 1,
                                    ![item].error = IF requests[item].resolveCalls = 0 /\ requests[item].rejectCalls = 0
                                                    THEN TimeoutMessage(acquireTimeout) ELSE @]
    /\ \E time \in 0..MaxElapsed : addStats(time)
    /\ timers' = timers \ {item}

\* the callback of the deadline timer of request item
timeoutCallback(item) ==
    LET i == FindIndex([k \in DOMAIN queue |-> queue[k] = item]) IN
    /\ queue' = IF i > 0 THEN RemoveAt(queue, i) ELSE queue
    /\ requests' = [requests EXCEPT ![item].rejectCalls = @ + 1,
                                    ![item].error = IF requests[item].resolveCalls = 0 /\ requests[item].rejectCalls = 0
                                                    THEN TimeoutMessage(acquireTimeout) ELSE @]
    /\ \E time \in 0..MaxElapsed : addStats(time)
    /\ timers' = timers \ {item}

resolve_pop(page) ==
    IF Len(queue) > 0
    THEN LET item == queue[Len(queue)] IN
         /\ queue' = SubSeq(queue, 1, Len(queue) - 1)
         /\ timers' = timers \ {item}
         /\ requests' = [requests EXCEPT ![item].resolveCalls = @ + 1,
                                         ![item].page = IF requests[item].resolveCalls = 0 /\ requests[item].rejectCalls = 0
                                                        THEN page ELSE @]
         /\ acquireLog' = acquireLog \o
                <<LogEntry("resolve", item, page, requests[item].pageOpts),
                  LogEntry("after_acquire", item, page, requests[item].pageOpts)>>
         /\ IF "after_acquire" \in throwing
            THEN UNCHANGED <<count, timeMax, timeTotal>>
            ELSE \E time \in 0..MaxElapsed : addStats(time)
    ELSE UNCHANGED <<queue, timers, requests, acquireLog, count, timeMax, timeTotal>>

resolve_noClear(page) ==
    IF Len(queue) > 0
    THEN LET item == Head(queue) IN
         /\ queue' = Tail(queue)
         /\ timers' = timers
         /\ requests' = [requests EXCEPT ![item].resolveCalls = @ + 1,
                                         ![item].page = IF requests[item].resolveCalls = 0 /\ requests[item].rejectCalls = 0
                                                        THEN page ELSE @]
         /\ acquireLog' = acquireLog \o
                <<LogEntry("resolve", item, page, requests[item].pageOpts),
                  LogEntry("after_acquire", item, page, requests[item].pageOpts)>>
         /\ IF "after_acquire" \in throwing
            THEN UNCHANGED <<count, timeMax, timeTotal>>
            ELSE \E time \in 0..MaxElapsed : addStats(time)
    ELSE UNCHANGED <<queue, timers, requests, acquireLog, count, timeMax, timeTotal>>

resolve_emitFirst(page) ==
    IF Len(queue) > 0
    THEN LET item == Head(queue) IN
         /\ queue' = Tail(queue)
         /\ timers' = timers \ {item}
         /\ requests' = [requests EXCEPT ![item].resolveCalls = @ + 1,
                                         ![item].page = IF requests[item].resolveCalls = 0 /\ requests[item].rejectCalls = 0
                                                        THEN page ELSE @]
         /\ acquireLog' = acquireLog \o
                <<LogEntry("after_acquire", item, page, requests[item].pageOpts),
                  LogEntry("resolve", item, page, requests[item].pageOpts)>>
         /\ IF "after_acquire" \in throwing
            THEN UNCHANGED <<count, timeMax, timeTotal>>
            ELSE \E time \in 0..MaxElapsed : addStats(time)
    ELSE UNCHANGED <<queue, timers, requests, acquireLog, count, timeMax, timeTotal>>

\* AcquireQueue.resolve: shift the head, clear its timer, fulfil it, emit
\* after_acquire and record the sample; an exception of the after_acquire
\* listener leaves resolve before the sample is recorded
resolve(page) ==
    IF Len(queue) > 0
    THEN LET item == Head(queue) IN
         /\ queue' = Tail(queue)
         /\ timers' = timers \ {item}
         /\ requests' = [requests EXCEPT ![item].resolveCalls = @ + 1,
                                         ![item].page = IF requests[item].resolveCalls = 0 /\ requests[item].rejectCalls = 0
                                                        THEN page ELSE @]
         /\ acquireLog' = acquireLog \o
                <<LogEntry("resolve", item, page, requests[item].pageOpts),
                  LogEntry("after_acquire", item, page, requests[item].pageOpts)>>
         /\ IF "after_acquire" \in throwing
            THEN UNCHANGED <<count, timeMax, timeTotal>>
            ELSE \E time \in 0..MaxElapsed : addStats(time)
    ELSE UNCHANGED <<queue, timers, requests, acquireLog, count, timeMax, timeTotal>>

\* PuppeteerPool.stats: one entry per live PoolItem, and the latency stats
PuppeteerPool_stats ==
    [browsers |-> [i \in DOMAIN pool |-> PoolItem_stats(poolItems[pool[i]])],
     acquireTime |-> stats]

\* AcquireQueue.resolve on queue q throws
resolveThrows(q) == ~isEmpty(q) /\ "after_acquire" \in throwing

\* ---- CloseQueue ----
addPageToClose(cp, pages) == cp \o pages

addBrowser(cb, browsers) == cb \o browsers

\* CloseQueue.closeAll up to its first await: swap both lists out and start
\* the close of every page
closeQueue_closeAll ==
    /\ closingPages' = closingPages \cup Range(closePages)
    /\ pageCloses' = pageCloses (+) SeqToBag(closePages)
    /\ closePages' = <<>>
    /\ flushBrowsers' = closeBrowsers
    /\ closeBrowsers' = <<>>
    /\ pc' = "flushPages"
    /\ passSignals' = 0

\* ---- PuppeteerPool API ----
acquire ==
    /\ Len(requests) < MaxRequests
    /\ \E pageOpts \in {Len(requests) + 1} : add(pageOpts)
    /\ run
    /\ thrown' = NoError
    /\ UNCHANGED <<pageCloses, browserCloses, afterClose, options, throwing, errorListener, pool, poolItems, count, closePages,
                   closeBrowsers, closingPages, flushBrowsers, closingBrowsers,
                   curItem, curBrowser, nextPage, nextBrowser, closeAllCalls, closeAllPending,
                   failures, errorEmits, pageBrowser, acquireLog, timeMax,
                   timeTotal>>

Timeout ==
    \E item \in timers :
        /\ timeoutCallback(item)
        /\ UNCHANGED <<pageCloses, browserCloses, afterClose, options, throwing, errorListener, pool, poolItems, closePages,
                       closeBrowsers, closingPages, flushBrowsers,
                       closingBrowsers, counter, passSignals, pc, curItem, curBrowser,
                       nextPage, nextBrowser, closeAllCalls, failures, thrown,
                       loops, errorEmits, pageBrowser, acquireLog>>
        /\ StillPending

\* pages a caller can hold: those delivered by acquire, and one page that
\* some other browser created
DeliveredPages == {requests[r].page : r \in DOMAIN requests} \ {0}

CloseArgs == DeliveredPages \cup {ForeignPage}

poolState == <<pool, poolItems, closePages, closeBrowsers, closingPages,
               flushBrowsers, closingBrowsers, queue, timers, requests, count,
               counter, pc, curItem, curBrowser, loops, errorEmits,
               pageBrowser, acquireLog, timeMax, timeTotal, passSignals>>

staysLive_and(poolItem) == active(poolItem) > 0 /\ ~isExhausted(poolItem)

staysLive_always(poolItem) == TRUE

\* close: the PoolItem stays in the pool while it has active pages or may
\* still produce pages
staysLive(poolItem) == active(poolItem) > 0 \/ ~isExhausted(poolItem)

close_signalFirst(page) ==
    LET poolItemIndex == FindIndex([i \in DOMAIN pool |-> findPageIndex(poolItems[pool[i]], page) > 0]) IN
    IF poolItemIndex = 0
    THEN /\ run
         /\ thrown' = NotOwnedError
         /\ UNCHANGED <<pageCloses, browserCloses, afterClose, options, throwing, errorListener, nextPage, nextBrowser,
                        closeAllCalls, closeAllPending, failures>>
         /\ UNCHANGED <<pool, poolItems, closePages, closeBrowsers,
                        closingPages, flushBrowsers, closingBrowsers, queue,
                        timers, requests, count, curItem, curBrowser,
                        errorEmits, pageBrowser, acquireLog, timeMax, timeTotal>>
    ELSE LET id == pool[poolItemIndex]
             poolItem == removePage(poolItems[id], page) IN
         /\ poolItems' = [poolItems EXCEPT ![id] = poolItem]
         /\ closePages' = addPageToClose(closePages, <<page>>)
         /\ IF staysLive(poolItem)
            THEN UNCHANGED <<pool, closeBrowsers>>
            ELSE /\ pool' = RemoveAt(pool, poolItemIndex)
                 /\ closeBrowsers' = addBrowser(closeBrowsers, <<poolItem.browser>>)
         /\ run
         /\ thrown' = NoError
         /\ UNCHANGED <<pageCloses, browserCloses, afterClose, options, throwing, errorListener, queue, timers, count, requests,
                        closingPages, flushBrowsers, closingBrowsers, curItem,
                        curBrowser, nextPage, nextBrowser, closeAllCalls, closeAllPending,
                        failures, errorEmits, pageBrowser, acquireLog, timeMax,
                        timeTotal>>

close_closesNow(page) ==
    LET poolItemIndex == FindIndex([i \in DOMAIN pool |-> findPageIndex(poolItems[pool[i]], page) > 0]) IN
    IF poolItemIndex = 0
    THEN /\ thrown' = NotOwnedError
         /\ UNCHANGED <<pageCloses, browserCloses, afterClose, options, throwing, errorListener, nextPage, nextBrowser,
                        closeAllCalls, closeAllPending, failures>>
         /\ UNCHANGED poolState
    ELSE LET id == pool[poolItemIndex]
             poolItem == removePage(poolItems[id], page) IN
         /\ poolItems' = [poolItems EXCEPT ![id] = poolItem]
         /\ closingPages' = closingPages \cup {page}
         /\ IF staysLive(poolItem)
            THEN UNCHANGED <<pool, closeBrowsers>>
            ELSE /\ pool' = RemoveAt(pool, poolItemIndex)
                 /\ closeBrowsers' = addBrowser(closeBrowsers, <<poolItem.browser>>)
         /\ run
         /\ thrown' = NoError
         /\ UNCHANGED <<pageCloses, browserCloses, afterClose, options, throwing, errorListener, queue, timers, count, requests,
                        closePages, flushBrowsers, closingBrowsers, curItem,
                        curBrowser, nextPage, nextBrowser, closeAllCalls, closeAllPending,
                        failures, errorEmits, pageBrowser, acquireLog, timeMax,
                        timeTotal>>

close(page) ==
    LET poolItemIndex == FindIndex([i \in DOMAIN pool |-> findPageIndex(poolItems[pool[i]], page) > 0]) IN
    IF poolItemIndex = 0
    THEN /\ thrown' = NotOwnedError
         /\ UNCHANGED <<pageCloses, browserCloses, afterClose, options, throwing, errorListener, nextPage, nextBrowser,
                        closeAllCalls, closeAllPending, failures>>
         /\ UNCHANGED poolState
    ELSE LET id == pool[poolItemIndex]
             poolItem == removePage(poolItems[id], page) IN
         /\ poolItems' = [poolItems EXCEPT ![id] = poolItem]
         /\ closePages' = addPageToClose(closePages, <<page>>)
         /\ IF staysLive(poolItem)
            THEN UNCHANGED <<pool, closeBrowsers>>
            ELSE /\ pool' = RemoveAt(pool, poolItemIndex)
                 /\ closeBrowsers' = addBrowser(closeBrowsers, <<poolItem.browser>>)
         /\ run
         /\ thrown' = NoError
         /\ UNCHANGED <<pageCloses, browserCloses, afterClose, options, throwing, errorListener, queue, timers, count, requests,
                        closingPages, flushBrowsers, closingBrowsers, curItem,
                        curBrowser, nextPage, nextBrowser, closeAllCalls, closeAllPending,
                        failures, errorEmits, pageBrowser, acquireLog, timeMax,
                        timeTotal>>

Close == \E page \in CloseArgs : close(page)

RECURSIVE AllPages(_, _)
AllPages(pl, its) ==
    IF pl = <<>> THEN <<>> ELSE its[Head(pl)].pages \o AllPages(Tail(pl), its)

closeAll_noBrowsers ==
    /\ closeAllCalls < MaxCloseAll
    /\ closeAllCalls' = closeAllCalls + 1
    /\ closeAllPending' = Len(queue)
    /\ closePages' = addPageToClose(closePages, AllPages(pool, poolItems))
    /\ closeBrowsers' = closeBrowsers
    /\ poolItems' = [id \in DOMAIN poolItems |->
                        IF id \in Range(pool) THEN removeAllPages(poolItems[id])
                        ELSE poolItems[id]]
    /\ pool' = <<>>
    /\ run
    /\ thrown' = NoError
    /\ UNCHANGED <<pageCloses, browserCloses, afterClose, options, throwing, errorListener, queue, timers, count, requests,
                   closingPages, flushBrowsers, closingBrowsers, curItem,
                   curBrowser, nextPage, nextBrowser, failures, errorEmits,
                   pageBrowser, acquireLog, timeMax, timeTotal>>

closeAll ==
    /\ closeAllCalls < MaxCloseAll
    /\ closeAllCalls' = closeAllCalls + 1
    /\ closeAllPending' = Len(queue)
    /\ closePages' = addPageToClose(closePages, AllPages(pool, poolItems))
    /\ closeBrowsers' = addBrowser(closeBrowsers, [i \in DOMAIN pool |-> poolItems[pool[i]].browser])
    /\ poolItems' = [id \in DOMAIN poolItems |->
                        IF id \in Range(pool) THEN removeAllPages(poolItems[id])
                        ELSE poolItems[id]]
    /\ pool' = <<>>
    /\ run
    /\ thrown' = NoError
    /\ UNCHANGED <<pageCloses, browserCloses, afterClose, options, throwing, errorListener, queue, timers, count, requests,
                   closingPages, flushBrowsers, closingBrowsers, curItem,
                   curBrowser, nextPage, nextBrowser, failures, errorEmits,
                   pageBrowser, acquireLog, timeMax, timeTotal>>

\* ---- processQueues ----
FindNotExhausted_noFilter(pl, its) == IF pl = <<>> THEN 0 ELSE pl[1]

FindNotExhausted_none(pl, its) == 0

\* first-fit: the first live PoolItem that is not exhausted (0: none)
FindNotExhausted(pl, its) ==
    LET i == FindIndex([k \in DOMAIN pl |-> ~isExhausted(its[pl[k]])]) IN
    IF i = 0 THEN 0 ELSE pl[i]

loopHead_le(pl, its, q) ==
    IF ~isEmpty(q) /\ totalActiveOf(pl, its) <= concurrency
    THEN LET found == FindNotExhausted(pl, its) IN
         /\ curItem' = found
         /\ pc' = IF found = 0 THEN "launch" ELSE "newPage"
    ELSE /\ curItem' = 0
         /\ pc' = "passDone"

loopHead_launch(pl, its, q) ==
    IF ~isEmpty(q) /\ totalActiveOf(pl, its) < concurrency
    THEN /\ curItem' = 0
         /\ pc' = "launch"
    ELSE /\ curItem' = 0
         /\ pc' = "passDone"

\* the head of the while loop, on the pool and queue as they are now: either
\* start a launch, start a newPage on the PoolItem found, or return
loopHead(pl, its, q) ==
    IF ~isEmpty(q) /\ totalActiveOf(pl, its) < concurrency
    THEN LET found == FindNotExhausted(pl, its) IN
         /\ curItem' = found
         /\ pc' = IF found = 0 THEN "launch" ELSE "newPage"
    ELSE /\ curItem' = 0
         /\ pc' = "passDone"

\* emit("error", err) throws: EventEmitter throws err itself when no "error"
\* listener is registered, and lets the exception of a listener through
emitErrorThrows == ~errorListener \/ "error" \in throwing

\* a pass threw: AsyncSerial emits "error" and waits out the backoff; when
\* the emit itself throws, the exception leaves the loop, which ends it
passFailed ==
    /\ errorEmits' = errorEmits + 1
    /\ pc' = IF emitErrorThrows THEN "dead" ELSE "backoff"
    /\ loops' = IF emitErrorThrows THEN loops - 1 ELSE loops
    /\ passSignals' = 0

envFails ==
    /\ failures < MaxFailures
    /\ failures' = failures + 1

\* CloseQueue.close when closable.close() rejected or onClosed threw: it
\* emits "error"; when that emit throws, the close promise rejects, and the
\* pass that awaits it throws into AsyncSerial, whose own emit ends the loop
closeFailed(awaited) ==
    IF ~emitErrorThrows
    THEN /\ errorEmits' = errorEmits + 1
         /\ UNCHANGED <<pc, loops, flushBrowsers, passSignals>>
    ELSE IF awaited
         THEN /\ errorEmits' = errorEmits + 2
              /\ pc' = "dead"
              /\ loops' = loops - 1
              /\ flushBrowsers' = <<>>
              /\ passSignals' = 0
         ELSE /\ errorEmits' = errorEmits + 1
              /\ UNCHANGED <<pc, loops, flushBrowsers, passSignals>>

\* the setImmediate callback: enter the loop and start the first pass
RunnerStart ==
    /\ pc = "scheduled"
    /\ closeQueue_closeAll
    /\ UNCHANGED <<browserCloses, afterClose, options, throwing, errorListener, pool, poolItems, queue, timers,
                   count, requests, closingBrowsers, counter, curItem,
                   curBrowser, nextPage, nextBrowser, closeAllCalls, closeAllPending, failures,
                   thrown, loops, errorEmits, pageBrowser, acquireLog, timeMax,
                   timeTotal>>

\* the close of one page completes: on success after_close is emitted, and
\* an exception of its listener is handled like a failed close
PageCloseDone(ok) ==
    \E page \in closingPages :
        /\ closingPages' = closingPages \ {page}
        /\ afterClose' = IF ok THEN afterClose (+) SetToBag({page}) ELSE afterClose
        /\ IF ok
           THEN IF "after_close" \in throwing
                THEN closeFailed(pc = "flushPages") /\ UNCHANGED failures
                ELSE UNCHANGED <<failures, errorEmits, pc, loops, flushBrowsers,
                                 passSignals>>
           ELSE envFails /\ closeFailed(pc = "flushPages")
        /\ UNCHANGED <<pageCloses, browserCloses, options, throwing, errorListener, pool, poolItems, queue, timers,
                       count, requests, closePages, closeBrowsers,
                       closingBrowsers, counter, curItem, curBrowser, nextPage,
                       nextBrowser, closeAllCalls, closeAllPending, thrown, pageBrowser,
                       acquireLog, timeMax, timeTotal>>

FlushPagesDone_noWait ==
    /\ pc = "flushPages"
    /\ closingBrowsers' = closingBrowsers \cup Range(flushBrowsers)
    /\ browserCloses' = browserCloses (+) SeqToBag(flushBrowsers)
    /\ flushBrowsers' = <<>>
    /\ pc' = "flushBrowsers"
    /\ UNCHANGED <<pageCloses, afterClose, options, throwing, errorListener, pool, poolItems, queue, timers,
                   count, requests, closePages, closeBrowsers, closingPages,
                   counter, passSignals, curItem, curBrowser, nextPage, nextBrowser,
                   closeAllCalls, closeAllPending, failures, thrown, loops, errorEmits,
                   pageBrowser, acquireLog, timeMax, timeTotal>>

\* every page close of the flush has completed: start the browser closes
FlushPagesDone ==
    /\ pc = "flushPages"
    /\ closingPages = {}
    /\ closingBrowsers' = closingBrowsers \cup Range(flushBrowsers)
    /\ browserCloses' = browserCloses (+) SeqToBag(flushBrowsers)
    /\ flushBrowsers' = <<>>
    /\ pc' = "flushBrowsers"
    /\ UNCHANGED <<pageCloses, afterClose, options, throwing, errorListener, pool, poolItems, queue, timers,
                   count, requests, closePages, closeBrowsers, closingPages,
                   counter, passSignals, curItem, curBrowser, nextPage, nextBrowser,
                   closeAllCalls, closeAllPending, failures, thrown, loops, errorEmits,
                   pageBrowser, acquireLog, timeMax, timeTotal>>

\* the close of one browser of a flush completes
BrowserCloseDone(ok) ==
    \E browser \in closingBrowsers :
        /\ closingBrowsers' = closingBrowsers \ {browser}
        /\ IF ok
           THEN UNCHANGED <<failures, errorEmits, pc, loops, flushBrowsers,
                            passSignals>>
           ELSE envFails /\ closeFailed(pc = "flushBrowsers")
        /\ UNCHANGED <<pageCloses, browserCloses, afterClose, options, throwing, errorListener, pool, poolItems, queue, timers,
                       count, requests, closePages, closeBrowsers, closingPages,
                       counter, curItem, curBrowser, nextPage, nextBrowser,
                       closeAllCalls, closeAllPending, thrown, pageBrowser, acquireLog, timeMax,
                       timeTotal>>

\* the flush is over: enter the while loop
FlushBrowsersDone ==
    /\ pc = "flushBrowsers"
    /\ closingBrowsers = {}
    /\ loopHead(pool, poolItems, queue)
    /\ UNCHANGED <<pageCloses, browserCloses, afterClose, options, throwing, errorListener, pool, poolItems, queue, timers,
                   count, requests, closePages, closeBrowsers, closingPages,
                   flushBrowsers, closingBrowsers, counter, passSignals, curBrowser,
                   nextPage, nextBrowser, closeAllCalls, closeAllPending, failures, thrown,
                   loops, errorEmits, pageBrowser, acquireLog, timeMax,
                   timeTotal>>

\* launch() completes: on success ask the browser for its first page
LaunchDone(ok) ==
    /\ pc = "launch"
    /\ IF ok
       THEN /\ curBrowser' = nextBrowser
            /\ nextBrowser' = nextBrowser + 1
            /\ pc' = "firstPage"
            /\ UNCHANGED <<failures, errorEmits, loops, passSignals>>
       ELSE /\ envFails
            /\ passFailed
            /\ UNCHANGED <<curBrowser, nextBrowser>>
    /\ UNCHANGED <<pageCloses, browserCloses, afterClose, options, throwing, errorListener, pool, poolItems, queue, timers,
                   count, requests, closePages, closeBrowsers, closingPages,
                   flushBrowsers, closingBrowsers, counter, curItem, nextPage,
                   closeAllCalls, closeAllPending, thrown, pageBrowser, acquireLog, timeMax,
                   timeTotal>>

FirstPageDone_noClose(ok) ==
    /\ pc = "firstPage"
    /\ IF ok
       THEN LET page == nextPage
                poolItem == addPage(NewPoolItem(curBrowser), page) IN
            /\ nextPage' = nextPage + 1
            /\ pageBrowser' = Append(pageBrowser, curBrowser)
            /\ poolItems' = Append(poolItems, poolItem)
            /\ pool' = Append(pool, Len(poolItems) + 1)
            /\ resolve(page)
            /\ IF resolveThrows(queue)
               THEN passFailed /\ curItem' = 0
               ELSE /\ loopHead(pool', poolItems', queue')
                    /\ UNCHANGED <<loops, errorEmits, passSignals>>
            /\ curBrowser' = 0
            /\ UNCHANGED failures
       ELSE /\ envFails
            /\ passFailed
            /\ curBrowser' = 0
            /\ UNCHANGED <<nextPage, pageBrowser, poolItems, pool, queue,
                           timers, requests, acquireLog, count, timeMax,
                           timeTotal, curItem>>
    /\ UNCHANGED <<pageCloses, browserCloses, afterClose, options, throwing, errorListener, closePages, closeBrowsers,
                   closingPages, flushBrowsers, closingBrowsers, counter,
                   nextBrowser, closeAllCalls, thrown>>
    /\ StillPending

\* browser.newPage() of a new browser completes: on success register a new
\* PoolItem and serve the oldest request; on failure close the browser
FirstPageDone(ok) ==
    /\ pc = "firstPage"
    /\ IF ok
       THEN LET page == nextPage
                poolItem == addPage(NewPoolItem(curBrowser), page) IN
            /\ nextPage' = nextPage + 1
            /\ pageBrowser' = Append(pageBrowser, curBrowser)
            /\ poolItems' = Append(poolItems, poolItem)
            /\ pool' = Append(pool, Len(poolItems) + 1)
            /\ resolve(page)
            /\ IF resolveThrows(queue)
               THEN passFailed /\ curItem' = 0
               ELSE /\ loopHead(pool', poolItems', queue')
                    /\ UNCHANGED <<loops, errorEmits, passSignals>>
            /\ curBrowser' = 0
            /\ UNCHANGED failures
       ELSE /\ envFails
            /\ pc' = "closePartial"
            /\ UNCHANGED <<nextPage, pageBrowser, poolItems, pool, queue,
                           timers, requests, acquireLog, count, timeMax,
                           timeTotal, curItem, curBrowser, loops, errorEmits,
                           passSignals>>
    /\ UNCHANGED <<pageCloses, browserCloses, afterClose, options, throwing, errorListener, closePages, closeBrowsers,
                   closingPages, flushBrowsers, closingBrowsers, counter,
                   nextBrowser, closeAllCalls, thrown>>
    /\ StillPending

\* browser.close() of the browser whose first page failed completes: the
\* pass throws, whichever way the close went
ClosePartialDone(ok) ==
    /\ pc = "closePartial"
    /\ IF ok THEN UNCHANGED failures ELSE envFails
    /\ passFailed
    /\ curBrowser' = 0
    /\ UNCHANGED <<pageCloses, browserCloses, afterClose, options, throwing, errorListener, pool, poolItems, queue, timers,
                   count, requests, closePages, closeBrowsers, closingPages,
                   flushBrowsers, closingBrowsers, counter, curItem, nextPage,
                   nextBrowser, closeAllCalls, closeAllPending, thrown, pageBrowser, acquireLog,
                   timeMax, timeTotal>>

\* poolItem.browser.newPage() of the PoolItem found completes
NewPageDone(ok) ==
    /\ pc = "newPage"
    /\ IF ok
       THEN LET page == nextPage IN
            /\ nextPage' = nextPage + 1
            /\ pageBrowser' = Append(pageBrowser, poolItems[curItem].browser)
            /\ poolItems' = [poolItems EXCEPT ![curItem] = addPage(@, page)]
            /\ resolve(page)
            /\ IF resolveThrows(queue)
               THEN passFailed /\ curItem' = 0
               ELSE /\ loopHead(pool, poolItems', queue')
                    /\ UNCHANGED <<errorEmits, loops, passSignals>>
            /\ UNCHANGED failures
       ELSE /\ envFails
            /\ passFailed
            /\ curItem' = 0
            /\ UNCHANGED <<nextPage, pageBrowser, poolItems, queue, timers,
                           requests, acquireLog, count, timeMax, timeTotal>>
    /\ UNCHANGED <<pageCloses, browserCloses, afterClose, options, throwing, errorListener, pool, closePages, closeBrowsers,
                   closingPages, flushBrowsers, closingBrowsers, counter,
                   curBrowser, nextBrowser, closeAllCalls, thrown>>
    /\ StillPending

PassDone_noFold ==
    /\ pc = "passDone"
    /\ LET c == counter - 1 IN
       /\ counter' = c
       /\ IF c > 0
          THEN closeQueue_closeAll /\ UNCHANGED loops
          ELSE /\ pc' = "idle"
               /\ loops' = loops - 1
               /\ UNCHANGED <<closePages, closeBrowsers, closingPages,
                              flushBrowsers, passSignals, pageCloses>>
    /\ UNCHANGED <<browserCloses, afterClose, options, throwing, errorListener, pool, poolItems, queue, timers,
                   count, requests, closingBrowsers, curItem, curBrowser,
                   nextPage, nextBrowser, closeAllCalls, closeAllPending, failures, thrown,
                   errorEmits, pageBrowser, acquireLog, timeMax, timeTotal>>

\* processQueues returned: AsyncSerial folds the signals that arrived during
\* the pass into one and either runs one more pass or leaves the loop
PassDone ==
    /\ pc = "passDone"
    /\ LET c == IF counter - 1 > 0 THEN 1 ELSE counter - 1 IN
       /\ counter' = c
       /\ IF c > 0
          THEN closeQueue_closeAll /\ UNCHANGED loops
          ELSE /\ pc' = "idle"
               /\ loops' = loops - 1
               /\ UNCHANGED <<closePages, closeBrowsers, closingPages,
                              flushBrowsers, passSignals, pageCloses>>
    /\ UNCHANGED <<browserCloses, afterClose, options, throwing, errorListener, pool, poolItems, queue, timers,
                   count, requests, closingBrowsers, curItem, curBrowser,
                   nextPage, nextBrowser, closeAllCalls, closeAllPending, failures, thrown,
                   errorEmits, pageBrowser, acquireLog, timeMax, timeTotal>>

\* the backoff timer fires: the loop runs the pass again
BackoffDone ==
    /\ pc = "backoff"
    /\ IF counter > 0
       THEN closeQueue_closeAll /\ UNCHANGED loops
       ELSE /\ pc' = "idle"
            /\ loops' = loops - 1
            /\ UNCHANGED <<closePages, closeBrowsers, closingPages,
                           flushBrowsers, passSignals, pageCloses>>
    /\ UNCHANGED <<browserCloses, afterClose, options, throwing, errorListener, pool, poolItems, queue, timers,
                   count, requests, closingBrowsers, counter, curItem,
                   curBrowser, nextPage, nextBrowser, closeAllCalls, closeAllPending, failures,
                   thrown, errorEmits, pageBrowser, acquireLog, timeMax,
                   timeTotal>>

Next ==
    \/ acquire
    \/ Timeout
    \/ Close
    \/ closeAll
    \/ RunnerStart
    \/ PageCloseDone(TRUE)
    \/ PageCloseDone(FALSE)
    \/ FlushPagesDone
    \/ BrowserCloseDone(TRUE)
    \/ BrowserCloseDone(FALSE)
    \/ FlushBrowsersDone
    \/ LaunchDone(TRUE)
    \/ LaunchDone(FALSE)
    \/ FirstPageDone(TRUE)
    \/ FirstPageDone(FALSE)
    \/ ClosePartialDone(TRUE)
    \/ ClosePartialDone(FALSE)
    \/ NewPageDone(TRUE)
    \/ NewPageDone(FALSE)
    \/ PassDone
    \/ BackoffDone

Spec == Init /\ [][Next]_vars

\* ---- the same pool with a listener that throws ----
SpecObservers == InitObservers /\ [][Next]_vars

TypeOK ==
    /\ pc \in {"idle", "scheduled", "flushPages", "flushBrowsers", "launch",
               "firstPage", "closePartial", "newPage", "passDone", "backoff", "dead"}
    /\ counter >= 0
    /\ (pc = "idle") <=> (counter = 0)

\* ---- runs without closeAll, deadline timers or failing calls ----
NextDrain ==
    \/ acquire
    \/ Close
    \/ RunnerStart
    \/ PageCloseDone(TRUE)
    \/ FlushPagesDone
    \/ BrowserCloseDone(TRUE)
    \/ FlushBrowsersDone
    \/ LaunchDone(TRUE)
    \/ FirstPageDone(TRUE)
    \/ NewPageDone(TRUE)
    \/ PassDone

SpecDrain == Init /\ [][NextDrain]_vars

\* ---- runs in which no call fails and no deadline fires (every request is
\* ---- served within the clock tick of its acquire call), every step of the
\* ---- runner and every awaited call completes, and every holder of a page
\* ---- closes it
ServedAtOnce == timeTotal' = timeTotal

RunnerStep ==
    \/ RunnerStart
    \/ PageCloseDone(TRUE)
    \/ FlushPagesDone
    \/ BrowserCloseDone(TRUE)
    \/ FlushBrowsersDone
    \/ LaunchDone(TRUE)
    \/ FirstPageDone(TRUE) /\ ServedAtOnce
    \/ NewPageDone(TRUE) /\ ServedAtOnce
    \/ PassDone

IsActive(page) ==
    \E i \in DOMAIN pool : findPageIndex(poolItems[pool[i]], page) > 0

HolderClose(page) == page \in DeliveredPages /\ IsActive(page) /\ close(page)

NextLive ==
    \/ acquire
    \/ Close
    \/ closeAll
    \/ RunnerStep

SpecLive ==
    /\ Init
    /\ [][NextLive]_vars
    /\ WF_vars(RunnerStep)
    /\ \A page \in 1..MaxRequests : WF_vars(HolderClose(page))

\* ---- a PoolItem on its own: addPage and removePage called directly, in
\* ---- any order, on the item as constructed
InitItem ==
    /\ options \in OptionsSet
    /\ throwing = {}
    /\ errorListener = FALSE
    /\ pool = <<>>
    /\ poolItems = <<NewPoolItem(1)>>
    /\ queue = <<>>
    /\ timers = {}
    /\ count = 0
    /\ requests = <<>>
    /\ closePages = <<>>
    /\ closeBrowsers = <<>>
    /\ closingPages = {}
    /\ flushBrowsers = <<>>
    /\ closingBrowsers = {}
    /\ counter = 0
    /\ pc = "idle"
    /\ curItem = 0
    /\ curBrowser = 0
    /\ nextPage = 1
    /\ nextBrowser = 2
    /\ closeAllCalls = 0
    /\ closeAllPending = 0
    /\ failures = 0
    /\ thrown = NoError
    /\ loops = 0
    /\ errorEmits = 0
    /\ pageBrowser = <<>>
    /\ acquireLog = <<>>
    /\ timeMax = 0
    /\ timeTotal = 0
    /\ passSignals = 0
    /\ afterClose = EmptyBag
    /\ pageCloses = EmptyBag
    /\ browserCloses = EmptyBag

itemFrame == <<options, throwing, errorListener, pool, queue, timers, count, requests,
               closePages, closeBrowsers, closingPages, flushBrowsers,
               closingBrowsers, counter, pc, curItem, curBrowser, nextPage,
               nextBrowser, closeAllCalls, closeAllPending, failures, loops, errorEmits,
               pageBrowser, acquireLog, timeMax, timeTotal, passSignals,
               afterClose, pageCloses, browserCloses>>

\* poolItem.addPage(page): it checks nothing and never throws
PoolItem_addPage(page) ==
    /\ Len(poolItems[1].pages) < MaxItemPages
    /\ poolItems[1].counter < MaxItemCounter
    /\ poolItems' = [poolItems EXCEPT ![1] = addPage(@, page)]
    /\ thrown' = NoError
    /\ UNCHANGED itemFrame

PoolItem_removePage_pop(page) ==
    /\ IF findPageIndex(poolItems[1], page) = 0
       THEN /\ thrown' = PageNotFoundError
            /\ UNCHANGED poolItems
       ELSE /\ poolItems' = [poolItems EXCEPT ![1].pages = SubSeq(@, 1, Len(@) - 1)]
            /\ thrown' = NoError
    /\ UNCHANGED itemFrame

\* poolItem.removePage(page): throws when findPageIndex finds no such page
PoolItem_removePage(page) ==
    /\ IF findPageIndex(poolItems[1], page) = 0
       THEN /\ thrown' = PageNotFoundError
            /\ UNCHANGED poolItems
       ELSE /\ poolItems' = [poolItems EXCEPT ![1] = removePage(@, page)]
            /\ thrown' = NoError
    /\ UNCHANGED itemFrame

NextItem ==
    \/ \E page \in 1..MaxItemPages : PoolItem_addPage(page)
    \/ \E page \in 1..MaxItemPages : PoolItem_removePage(page)

SpecItem == InitItem /\ [][NextItem]_vars

\* ======================= claims =======================

\* C1: in every reachable state the active pages of the live PoolItems sum
\* to at most the concurrency
C1_TotalActiveBounded == totalActive <= concurrency

C1_Witness == concurrency = MaxConcurrency /\ totalActive = concurrency /\ Len(queue) > 0

\* C2: for every PoolItem ever constructed the counter never decreases, the
\* number of active pages is at most the counter, and the counter is at most
\* the concurrency
C2_CounterInvariant ==
    [][\A id \in DOMAIN poolItems' :
          /\ active(poolItems'[id]) <= poolItems'[id].counter
          /\ poolItems'[id].counter <= concurrency
          /\ id \in DOMAIN poolItems => poolItems'[id].counter >= poolItems[id].counter]_vars

C2_Witness ==
    \E id \in DOMAIN poolItems :
        /\ concurrency = MaxConcurrency
        /\ poolItems[id].counter = concurrency
        /\ active(poolItems[id]) = 1

\* a live PoolItem leaves the pool in this step with its browser scheduled
TornDown(id) ==
    /\ id \in Range(pool)
    /\ id \notin Range(pool')
    /\ poolItems[id].browser \in Range(closeBrowsers')

\* C3 as stated: a live PoolItem is torn down in a step if and only if after
\* the step its counter has reached the concurrency and it has no active page
C3_Original ==
    [][\A id \in Range(pool) :
          TornDown(id) <=> (poolItems'[id].counter = concurrency /\ active(poolItems'[id]) = 0)]_vars

\* C3 amended: a step of close tears a live PoolItem down if and only if its
\* counter has reached the concurrency and its active set is empty; a step of
\* closeAll tears down every live PoolItem; no other step tears one down, and
\* no exhausted PoolItem without active pages stays in the pool
C3_TornDownIff ==
    [][/\ \A id \in Range(pool) :
             TornDown(id) <=> \/ closeAllCalls' # closeAllCalls
                              \/ poolItems'[id].counter = concurrency /\ active(poolItems'[id]) = 0
       /\ \A id \in Range(pool') :
             ~(poolItems'[id].counter >= concurrency /\ active(poolItems'[id]) = 0)]_vars

C3_Witness ==
    /\ closeAllCalls = 0
    /\ \E id \in DOMAIN poolItems :
          /\ id \notin Range(pool)
          /\ poolItems[id].counter = concurrency
          /\ poolItems[id].browser \in Range(closeBrowsers)
    /\ pool # <<>>

\* C4: a request that is resolved in a step is the head of the queue and the
\* oldest request in it, and no request that arrived after it was resolved
\* before it
C4_Fifo ==
    [][\A r \in DOMAIN requests :
          requests'[r].resolveCalls > requests[r].resolveCalls =>
              /\ queue # <<>>
              /\ r = Head(queue)
              /\ \A q \in Range(queue) : r <= q
              /\ \A later \in DOMAIN requests : later > r => requests[later].resolveCalls = 0]_vars

C4_Witness ==
    /\ Len(requests) >= 3
    /\ requests[1].resolveCalls = 1
    /\ requests[2].rejectCalls = 1
    /\ requests[3].resolveCalls = 1

\* C5: a close of a page that no live PoolItem holds throws 'Provided page
\* does not belong to the pool' and changes nothing of the pool
C5_ForeignCloseThrows ==
    [][\A page \in CloseArgs :
          (close(page) /\ ~IsActive(page)) =>
              /\ thrown' = NotOwnedError
              /\ UNCHANGED <<pool, poolItems, closePages, closeBrowsers,
                             closingPages, flushBrowsers, closingBrowsers,
                             queue, timers, requests, count, counter, pc>>]_vars

C5_Witness ==
    /\ thrown = NotOwnedError
    /\ pool # <<>>
    /\ queue # <<>>
    /\ closePages # <<>>

ConfiguredTimeout ==
    IF "acquireTimeout" \in DOMAIN options THEN options.acquireTimeout
    ELSE ACQUIRE_TIMEOUT_DEFAULT

\* C6: when the deadline of a queued request fires while concurrency pages
\* are active, the request is rejected with the message naming the
\* configured acquireTimeout and is no longer in the queue
C6_TimeoutRejects ==
    [][\A r \in timers :
          (r \in Range(queue) /\ r \notin timers' /\ totalActive = concurrency) =>
              /\ requests'[r].rejectCalls = 1
              /\ requests'[r].resolveCalls = 0
              /\ requests'[r].error = <<"Acquire timeout: ", ConfiguredTimeout, " ms">>
              /\ r \notin Range(queue')]_vars

C6_Witness ==
    /\ concurrency = MaxConcurrency
    /\ totalActive = concurrency
    /\ \E r \in DOMAIN requests :
          /\ requests[r].rejectCalls = 1
          /\ requests[r].error = TimeoutMessage(TestAcquireTimeout)
          /\ \A e \in 1..(r - 1) : requests[e].page # 0

\* C7: every request has at most one call of resolve or reject; a request in
\* the queue has none and its timer is armed; a request that left the queue
\* has exactly one and its timer is not armed
C7_SettledOnce ==
    \A r \in DOMAIN requests :
        /\ requests[r].resolveCalls + requests[r].rejectCalls <= 1
        /\ r \in Range(queue) =>
              requests[r].resolveCalls + requests[r].rejectCalls = 0 /\ r \in timers
        /\ r \notin Range(queue) =>
              requests[r].resolveCalls + requests[r].rejectCalls = 1 /\ r \notin timers

C7_Witness ==
    \E r1, r2 \in DOMAIN requests :
        /\ r1 < r2
        /\ requests[r1].rejectCalls = 1
        /\ requests[r2].resolveCalls = 1
        /\ totalActive < concurrency

AllDeliveredClosed ==
    \A page \in DeliveredPages :
        \A id \in DOMAIN poolItems : findPageIndex(poolItems[id], page) = 0

\* C8: without closeAll, timeouts and failures, when every delivered page has
\* been closed and their number is a multiple of the concurrency, the pool
\* has no live PoolItem
C8_Drain ==
    (/\ DeliveredPages # {}
     /\ Cardinality(DeliveredPages) % concurrency = 0
     /\ AllDeliveredClosed) => pool = <<>>

C8_Witness ==
    /\ concurrency = MaxConcurrency
    /\ Cardinality(DeliveredPages) = concurrency
    /\ AllDeliveredClosed
    /\ pool = <<>>

\* C9: a step of closeAll empties the pool, schedules every page that was
\* active in a live PoolItem and the browser of every live PoolItem, and
\* starts no teardown itself
C9_CloseAll ==
    [][closeAllCalls' # closeAllCalls =>
          /\ pool' = <<>>
          /\ \A id \in Range(pool) :
                /\ Range(poolItems[id].pages) \subseteq Range(closePages')
                /\ poolItems[id].browser \in Range(closeBrowsers')
          /\ UNCHANGED <<closingPages, closingBrowsers, flushBrowsers>>]_vars

C9_Witness ==
    /\ closeAllCalls = 1
    /\ pool = <<>>
    /\ Len(closeBrowsers) >= 2
    /\ Len(closePages) >= 2

\* C10: when no call fails, no deadline fires and every holder closes its
\* page, every acquire request is eventually resolved with a page
C10_EveryRequestServed ==
    \A r \in 1..MaxRequests :
        (Len(requests) >= r) ~> (Len(requests) >= r /\ requests[r].resolveCalls = 1 /\ requests[r].page # 0)

C10_Witness ==
    /\ concurrency < Len(requests)
    /\ \A r \in DOMAIN requests : requests[r].page # 0

\* C11: in every reachable state at most one loop of AsyncSerial is scheduled
\* or running, so at most one execution of processQueues is; this includes
\* the states where the loop waits out its backoff
C11_SingleFlight ==
    /\ loops <= 1
    /\ pc \in PassRunning \cup {"scheduled", "backoff"} => loops = 1

C11_Witness == pc = "backoff" /\ loops = 1 /\ counter >= 3

\* C12 as stated: when a pass returns, one more pass starts if some signal
\* arrived while it was executing, and the loop stops if none did
C12_Original ==
    [][(pc = "passDone" /\ pc' # "passDone") =>
          IF passSignals >= 1
          THEN pc' = "flushPages" /\ counter' = 1
          ELSE pc' = "idle" /\ counter' = 0]_vars

\* C12, amended: when a pass returns, the signals counted since the loop was
\* scheduled (before the pass started, or while it was executing) fold into
\* exactly one further pass; the loop stops only when the signal that
\* scheduled it is the only one counted
C12_Coalesce ==
    [][(pc = "passDone" /\ pc' # "passDone") =>
          /\ counter >= 1 + passSignals
          /\ IF counter >= 2
             THEN pc' = "flushPages" /\ counter' = 1
             ELSE pc' = "idle" /\ counter' = 0]_vars

C12_Witness == pc = "passDone" /\ passSignals >= 2 /\ counter = 1 + passSignals

\* C13: while a signal is still unserved the loop of AsyncSerial is
\* scheduled, running a pass or waiting out its backoff: a failed pass never
\* ends it
C13_LoopSurvives ==
    counter > 0 => pc \in PassRunning \cup {"scheduled", "backoff"}

\* C14: a step in which launch() fails, the first newPage() of a new browser
\* fails, or the close of that browser completes, adds no PoolItem, leaves
\* the acquire queue, its timers and every request's promise as they were;
\* after a failed first newPage() the close of the new browser is awaited
\* before the pass throws; the throw is reported by one "error" emit
C14_FailedLaunch ==
    [][/\ (pc = "launch" /\ pc' \in {"backoff", "dead"}) =>
              /\ UNCHANGED <<pool, poolItems, queue, timers, requests>>
              /\ errorEmits' = errorEmits + 1
       /\ (pc = "firstPage" /\ pc' # "firstPage" /\ nextPage' = nextPage) =>
              /\ UNCHANGED <<pool, poolItems, queue, timers, requests>>
              /\ pc' = "closePartial"
              /\ curBrowser # 0 /\ curBrowser' = curBrowser
       /\ (pc = "closePartial" /\ pc' # "closePartial") =>
              /\ UNCHANGED <<pool, poolItems, queue, timers, requests>>
              /\ curBrowser # 0 /\ curBrowser' = 0
              /\ errorEmits' = errorEmits + 1]_vars

C14_Witness ==
    /\ pc = "backoff"
    /\ nextBrowser = 2
    /\ curBrowser = 0
    /\ poolItems = <<>>
    /\ Len(queue) >= 2
    /\ \A r \in DOMAIN requests : requests[r].rejectCalls = 0
    /\ errorEmits = 1

\* C15: a browser of the flush in progress stays due for closing until its
\* close is started, whatever happens to the closes of the pages of that
\* flush; a failed page or browser close is reported by exactly one "error"
\* emit and changes no request's promise
C15_TeardownIsolated ==
    [][/\ \A browser \in Range(flushBrowsers) :
              browser \in Range(flushBrowsers') \cup closingBrowsers'
       /\ (failures' # failures /\ pc \in {"flushPages", "flushBrowsers"}) =>
              /\ errorEmits' = errorEmits + 1
              /\ UNCHANGED <<requests, thrown>>]_vars

\* C16: in a step that starts the close of a browser of a flush, the close
\* of every page of that flush has completed, and no page created by that
\* browser is scheduled for closing or has its close in flight
C16_PagesBeforeBrowsers ==
    [][\A browser \in closingBrowsers' \ closingBrowsers :
          /\ closingPages = {}
          /\ closingPages' = {}
          /\ \A page \in Range(closePages') \cup closingPages' :
                pageBrowser[page] # browser]_vars

\* the close of a browser is in flight after the close of one of its pages
\* succeeded and the close of another failed
C16_Witness ==
    \E browser \in closingBrowsers :
        \E p1, p2 \in DOMAIN pageBrowser :
            /\ pageBrowser[p1] = browser
            /\ pageBrowser[p2] = browser
            /\ BagIn(p1, afterClose)
            /\ ~BagIn(p2, afterClose)
            /\ ~IsActive(p2)
            /\ failures = 1

\* the after_acquire emits that carry the options of the acquire call of
\* request r
AfterAcquireOf(r) ==
    {i \in DOMAIN acquireLog :
        /\ acquireLog[i].kind = "after_acquire"
        /\ acquireLog[i].pageOpts = requests[r].pageOpts}

\* C17: in every reachable state a request whose resolve was called has
\* exactly one after_acquire emit, made right after that call of resolve and
\* carrying the page delivered and the options of the acquire call; a request
\* that was not resolved, one that timed out in particular, has none
C17_AfterAcquire ==
    \A r \in DOMAIN requests :
        IF requests[r].resolveCalls > 0
        THEN /\ Cardinality(AfterAcquireOf(r)) = 1
             /\ \A i \in AfterAcquireOf(r) :
                   /\ acquireLog[i].page = requests[r].page
                   /\ requests[r].page # 0
                   /\ i > 1
                   /\ acquireLog[i - 1] =
                         LogEntry("resolve", r, requests[r].page, requests[r].pageOpts)
        ELSE AfterAcquireOf(r) = {}

C17_Witness ==
    /\ Len(requests) = 3
    /\ requests[1].resolveCalls = 1
    /\ requests[2].rejectCalls = 1
    /\ requests[3].resolveCalls = 1
    /\ Len(acquireLog) = 4

\* C18: while a page handed to close() is scheduled for closing, the loop
\* that will start its close is scheduled, running a pass or waiting out its
\* backoff; and in the step in which the close of a page completes,
\* after_close is emitted once for that page and "error" is not emitted if
\* the close succeeded, "error" is emitted and after_close is not if it
\* failed
C18_CloseAttempted ==
    [][/\ closePages' # <<>> => pc' \in PassRunning \cup {"scheduled", "backoff"}
       /\ \A page \in closingPages \ closingPages' :
             IF failures' = failures
             THEN /\ afterClose' = afterClose (+) SetToBag({page})
                  /\ CopiesIn(page, afterClose') = 1
                  /\ errorEmits' = errorEmits
             ELSE /\ afterClose' = afterClose
                  /\ errorEmits' > errorEmits]_vars

\* C19: before any latency sample is recorded, stats() reports the mean 0
C19_MeanDefined == count = 0 => stats.mean = Num(0)

\* a concurrency option below 1 was given to the constructor
LowConcurrency == "concurrency" \in DOMAIN options /\ options.concurrency < 1

C21_CloseDefers ==
    [][/\ \A page \in DOMAIN pageBrowser :
             (IsActive(page) /\ close(page)) =>
                 /\ page \in Range(closePages')
                 /\ page \notin closingPages'
                 /\ UNCHANGED <<closingPages, closingBrowsers, flushBrowsers, afterClose>>
                 /\ totalActive' = totalActive - 1
                 /\ \A i \in DOMAIN pool :
                       pool[i] \notin Range(pool') =>
                           /\ poolItems[pool[i]].browser \in Range(closeBrowsers')
                           /\ poolItems[pool[i]].browser \notin closingBrowsers'
       /\ \A page \in closingPages' \ closingPages :
             /\ page \in Range(closePages)
             /\ pc \in {"scheduled", "passDone", "backoff"}
             /\ pc' = "flushPages"]_vars

\* close() returned while a pass was executing: the page and its browser
\* wait in the close queue and the slot is free for the queued request
C21_Witness ==
    /\ pc = "newPage"
    /\ thrown = NoError
    /\ closePages # <<>>
    /\ closeBrowsers # <<>>
    /\ closingPages = {}
    /\ closingBrowsers = {}
    /\ totalActive < concurrency

\* the pages that PoolItem id registered, and those of them that no
\* close() or closeAll() call has taken from it
RegisteredOn(id) ==
    {page \in DOMAIN pageBrowser : pageBrowser[page] = poolItems[id].browser}

StillActiveOn(id) ==
    {page \in RegisteredOn(id) :
        page \notin Range(closePages) /\ ~BagIn(page, pageCloses)}

\* C22: in every reachable state stats() has one entry per PoolItem of the
\* pool, in the order the PoolItems were created, with counter the number of
\* pages the item ever registered and active the number of them still
\* active; after one resolved acquire and nothing closed, it has exactly one
\* entry, with counter 1 and active 1
C22_Stats ==
    LET browsers == PuppeteerPool_stats.browsers IN
    /\ DOMAIN browsers = DOMAIN pool
    /\ \A i \in DOMAIN pool :
          /\ browsers[i].counter = Cardinality(RegisteredOn(pool[i]))
          /\ browsers[i].active = Cardinality(StillActiveOn(pool[i]))
    /\ \A i, j \in DOMAIN pool : i < j => pool[i] < pool[j]
    /\ (/\ Len(requests) = 1
        /\ requests[1].page # 0
        /\ closeAllCalls = 0
        /\ closePages = <<>>
        /\ pageCloses = EmptyBag) =>
           browsers = <<[counter |-> 1, active |-> 1]>>

C22_Witness ==
    /\ Len(pool) = 2
    /\ PuppeteerPool_stats.browsers[1] = [counter |-> 2, active |-> 1]
    /\ PuppeteerPool_stats.browsers[2] = [counter |-> 1, active |-> 1]

\* C23: when the loop of processQueues goes on to create a page on a
\* PoolItem, that item is the first of the pool, in pool order, that is not
\* exhausted; when it goes on to launch a browser, every PoolItem of the pool
\* is exhausted, and still is when the launch completes; the page created is
\* registered on the PoolItem chosen and comes from its browser
C23_FirstFit ==
    [][/\ (pc' = "newPage" /\ (pc # "newPage" \/ nextPage' # nextPage)) =>
              \E i \in DOMAIN pool' :
                  /\ pool'[i] = curItem'
                  /\ ~isExhausted(poolItems'[curItem'])
                  /\ \A j \in 1..(i - 1) : isExhausted(poolItems'[pool'[j]])
       /\ (pc' = "launch" /\ pc # "launch") =>
              \A id \in Range(pool') : isExhausted(poolItems'[id])
       /\ (pc = "launch" /\ pc' # "launch") =>
              \A id \in Range(pool) : isExhausted(poolItems[id])
       /\ (pc = "newPage" /\ nextPage' # nextPage) =>
              /\ pageBrowser'[nextPage] = poolItems[curItem].browser
              /\ poolItems'[curItem].pages = Append(poolItems[curItem].pages, nextPage)]_vars

\* a browser is being launched while the pool holds a PoolItem that was
\* reused for a second page and is now exhausted
C23_Witness ==
    /\ pc = "launch"
    /\ Len(pool) = 1
    /\ poolItems[pool[1]].counter = 2
    /\ concurrency = 2

\* C24: addPage on a PoolItem that is exhausted throws and leaves the pages
\* and the counter of the item as they were
C24_AddPageChecksCapacity ==
    [][\A page \in 1..MaxItemPages :
          (isExhausted(poolItems[1]) /\ PoolItem_addPage(page)) =>
              /\ thrown' # NoError
              /\ poolItems' = poolItems]_vars

\* C25: removePage of a page that is not among the pages of the PoolItem
\* throws "Page not found" and leaves pages and counter as they were;
\* removePage of a page that is among them removes one entry, that page,
\* keeps every other entry and leaves the counter as it was
C25_RemovePage ==
    [][\A page \in 1..MaxItemPages :
          PoolItem_removePage(page) =>
              IF page \notin Range(poolItems[1].pages)
              THEN /\ thrown' = PageNotFoundError
                   /\ poolItems' = poolItems
              ELSE /\ thrown' = NoError
                   /\ poolItems'[1].counter = poolItems[1].counter
                   /\ Len(poolItems'[1].pages) = Len(poolItems[1].pages) - 1
                   /\ SeqToBag(poolItems'[1].pages) (+) SetToBag({page}) =
                         SeqToBag(poolItems[1].pages)]_vars

\* a removePage that threw, after one that removed a page
C25_Witness ==
    /\ thrown = PageNotFoundError
    /\ Len(poolItems[1].pages) = 2
    /\ poolItems[1].counter = 3

\* C26: in every reachable state the number of latency samples recorded is
\* the number of requests resolved plus the number of requests timed out
C26_OneSamplePerRequest ==
    count = Cardinality({r \in DOMAIN requests : requests[r].resolveCalls > 0})
            + Cardinality({r \in DOMAIN requests : requests[r].rejectCalls > 0})

\* C28: a pass fails, or the loop ends, only in a step in which a launch,
\* newPage or close call failed (or the close that follows a failed first
\* newPage completed), never because a listener threw; the loop of a pool
\* that has an "error" listener never ends; a step that resolves a request
\* records its latency sample
C28_ObserversIsolated ==
    [][/\ (pc' \in {"backoff", "dead"} /\ pc \in PassRunning \ {"closePartial"}) =>
              failures' = failures + 1
       /\ errorListener => pc' # "dead"
       /\ (\E r \in DOMAIN requests :
              requests'[r].resolveCalls > requests[r].resolveCalls) =>
              count' = count + 1]_vars

\* C27: a page or browser in the close queue stays there until a flush takes
\* it, and a browser taken by a flush stays due until its close is called;
\* while something is in the close queue the loop that will flush it is
\* scheduled, running a pass or waiting out its backoff; a flush calls close
\* only on what it took when it started, so what is scheduled during a flush
\* waits for a later one; close is called at most once on any page or browser
C27_FlushIsSwap ==
    [][/\ \A page \in Range(closePages) :
             page \in Range(closePages') \/ BagIn(page, pageCloses')
       /\ \A browser \in Range(closeBrowsers) :
             browser \in Range(closeBrowsers') \cup Range(flushBrowsers')
       /\ \A browser \in Range(flushBrowsers) :
             browser \in Range(flushBrowsers') \/ BagIn(browser, browserCloses')
       /\ (closePages' # <<>> \/ closeBrowsers' # <<>>) =>
             pc' \in PassRunning \cup {"scheduled", "backoff"}
       /\ pageCloses' # pageCloses =>
             /\ pc \in {"scheduled", "passDone", "backoff"}
             /\ pageCloses' = pageCloses (+) SeqToBag(closePages)
             /\ closePages' = <<>>
       /\ browserCloses' # browserCloses =>
             /\ pc = "flushPages"
             /\ browserCloses' = browserCloses (+) SeqToBag(flushBrowsers)
             /\ UNCHANGED closeBrowsers
       /\ \A page \in BagToSet(pageCloses') : CopiesIn(page, pageCloses') = 1
       /\ \A browser \in BagToSet(browserCloses') :
             CopiesIn(browser, browserCloses') = 1]_vars

\* the number of places that hold a page: once for each position in the
\* active list of a PoolItem, in the pool or not, once for each position in
\* the close queue, once while the flush is closing it
Occurrences(s, page) == Cardinality({i \in DOMAIN s : s[i] = page})

Places(page) ==
    SeqSum([id \in DOMAIN poolItems |-> Occurrences(poolItems[id].pages, page)])
        + Occurrences(closePages, page)
        + (IF page \in closingPages THEN 1 ELSE 0)

\* C29: in every reachable state a page is in at most one place among the
\* active lists of all PoolItems, the close queue and the running flush
C29_ExclusiveOwnership ==
    \A page \in DOMAIN pageBrowser : Places(page) <= 1

\* C29: a close(page) call that succeeds takes the page off the active list
\* of its PoolItem and puts it in the close queue in the same step, and no
\* other page changes place
C29_CloseMoves ==
    [][\A page \in DOMAIN pageBrowser :
          (IsActive(page) /\ close(page)) =>
              /\ \A id \in DOMAIN poolItems' :
                    Occurrences(poolItems'[id].pages, page) = 0
              /\ \E id \in DOMAIN poolItems : Occurrences(poolItems[id].pages, page) = 1
              /\ Occurrences(closePages, page) = 0
              /\ Occurrences(closePages', page) = 1
              /\ \A other \in DOMAIN pageBrowser \ {page} :
                    /\ Occurrences(closePages', other) = Occurrences(closePages, other)
                    /\ \A id \in DOMAIN poolItems :
                          Occurrences(poolItems'[id].pages, other) =
                              Occurrences(poolItems[id].pages, other)]_vars

C29_Ownership == []C29_ExclusiveOwnership /\ C29_CloseMoves

\* one page is active on a PoolItem, a second is in the close queue after a
\* close() call and a third is being closed by the flush
C29_Witness ==
    /\ \E id \in DOMAIN poolItems : poolItems[id].pages # <<>>
    /\ closePages # <<>>
    /\ closingPages # {}
    /\ thrown = NoError

\* the pages on the active lists of all PoolItems, and the delivered pages
\* that no close() or closeAll() call has put in the close queue
ActivePages == UNION {Range(poolItems[id].pages) : id \in DOMAIN poolItems}

HeldPages ==
    {page \in DeliveredPages :
        page \notin Range(closePages) /\ ~BagIn(page, pageCloses)}

\* C30: every page on the active list of a PoolItem was delivered to exactly
\* one acquire call, and the number of active pages is the number of pages
\* delivered and not yet closed
C30_NoLeak ==
    /\ \A page \in ActivePages :
          Cardinality({r \in DOMAIN requests : requests[r].page = page}) = 1
    /\ Cardinality(ActivePages) = Cardinality(HeldPages)

\* C31: in the step that delivers a page to an acquire call, the page is on
\* the active list of a PoolItem of the pool, and the browser of that page is
\* neither in the close queue nor being closed
C31_DeliveredIsLive ==
    [][\A r \in DOMAIN requests :
          (requests[r].page = 0 /\ requests'[r].page # 0) =>
              LET page == requests'[r].page IN
              /\ \E i \in DOMAIN pool' :
                    findPageIndex(poolItems'[pool'[i]], page) > 0
              /\ pageBrowser'[page] \notin
                    Range(closeBrowsers') \cup Range(flushBrowsers') \cup closingBrowsers']_vars

\* the PoolItems of the pool that can still produce pages
NotExhausted == {i \in DOMAIN pool : ~isExhausted(poolItems[pool[i]])}

\* C32: in every reachable state at most one PoolItem of the pool is not
\* exhausted
C32_OneNotExhausted == Cardinality(NotExhausted) <= 1

\* a second browser was launched because the first is exhausted: the pool
\* holds an exhausted PoolItem with an active page and one that is not
\* exhausted
C32_Witness ==
    /\ Len(pool) = 2
    /\ Cardinality(NotExhausted) = 1
    /\ \A i \in DOMAIN pool : active(poolItems[pool[i]]) > 0

\* C33: in every reachable state every PoolItem of the pool has an active
\* page or is not exhausted
C33_NoLingering ==
    \A i \in DOMAIN pool :
        active(poolItems[pool[i]]) > 0 \/ ~isExhausted(poolItems[pool[i]])

\* close() took the last page of an exhausted PoolItem and retired it while
\* another PoolItem stays in the pool
C33_Witness ==
    /\ closeAllCalls = 0
    /\ thrown = NoError
    /\ closeBrowsers # <<>>
    /\ pool # <<>>
    /\ \A b \in Range(closeBrowsers) :
          \A i \in DOMAIN pool : poolItems[pool[i]].browser # b

\* C34: in every reachable state the pool holds at most concurrency
\* PoolItems
C34_PoolBounded == Len(pool) <= concurrency

\* with concurrency 2 the pool holds two PoolItems, an exhausted one and the
\* one launched after it
C34_Witness ==
    /\ concurrency = 2
    /\ Len(pool) = concurrency
    /\ pc = "passDone"


\* the requests that were pending at the last closeAll() call and still are
PendingAtCloseAll == {queue[k] : k \in 1..closeAllPending}

\* C35: a closeAll() call leaves the acquire queue, the deadline timers and
\* every request as they are; a request that was pending at the last
\* closeAll() is rejected only by its own deadline timer, and when a page is
\* delivered to it, the requests that were ahead of it have left the queue
\* and the page is on a PoolItem that is in the pool, which closeAll() had
\* emptied
C35_CloseAllKeepsQueue ==
    [][/\ closeAllCalls' # closeAllCalls =>
             /\ UNCHANGED <<queue, timers, requests>>
             /\ PendingAtCloseAll' = Range(queue)
       /\ \A k \in 1..closeAllPending :
             LET r == queue[k] IN
             /\ requests'[r].rejectCalls # requests[r].rejectCalls =>
                   /\ r \in timers
                   /\ r \notin timers'
             /\ (requests[r].page = 0 /\ requests'[r].page # 0) =>
                   /\ \A j \in 1..(k - 1) : queue[j] \notin Range(queue')
                   /\ \E i \in DOMAIN pool' :
                         findPageIndex(poolItems'[pool'[i]], requests'[r].page) > 0]_vars

\* the delivered pages that a close() or closeAll() call has already put in
\* the close queue
ClosedPages ==
    {page \in DeliveredPages :
        page \in Range(closePages) \/ BagIn(page, pageCloses)}

\* how many times a page or a browser was put in the close queue
PageScheduled(page) == Occurrences(closePages, page) + CopiesIn(page, pageCloses)

BrowserScheduled(browser) ==
    Occurrences(closeBrowsers, browser) + Occurrences(flushBrowsers, browser)
        + CopiesIn(browser, browserCloses)

\* C36: close() of a page that close() or closeAll() has already closed
\* throws 'Provided page does not belong to the pool' and changes nothing
\* else, and no page and no browser is put in the close queue twice
C36_ScheduledOnce ==
    /\ \A page \in DOMAIN pageBrowser : PageScheduled(page) <= 1
    /\ \A id \in DOMAIN poolItems : BrowserScheduled(poolItems[id].browser) <= 1

C36_CloseThrows ==
    [][\A page \in ClosedPages :
          close(page) =>
              /\ thrown' = NotOwnedError
              /\ UNCHANGED poolState
              /\ UNCHANGED <<pageCloses, browserCloses, afterClose, failures>>]_vars

C36_CloseOnce == []C36_ScheduledOnce /\ C36_CloseThrows

\* a close() call has thrown after closeAll() closed a delivered page
C36_Witness ==
    /\ thrown = NotOwnedError
    /\ closeAllCalls = 1
    /\ ClosedPages # {}
    /\ pool = <<>>

\* the pages that exist: active on a PoolItem of the pool, waiting in the
\* close queue or being closed by the flush
OpenPages == totalActive + Len(closePages) + Cardinality(closingPages)

\* C37: in every reachable state the number of pages that are active,
\* waiting in the close queue or being closed is at most concurrency
C37_OpenPagesBounded == OpenPages <= concurrency
====
